---- MODULE Spec2Model ----
(***************************************************************************)
(* A model of the natural-language task router of app.py, tasksA.py and    *)
(* tasksB.py: the completion service's answer is classified by             *)
(* get_completions, run_task dispatches it to one of the task handlers,    *)
(* and the handlers of tasksB.py gate their file accesses with             *)
(* validate_data_path.                                                     *)
(***************************************************************************)
EXTENDS Integers, Sequences, FiniteSets, Bags, TLC

VARIABLES
    fs,         \* the filesystem: a function from the paths that exist to their content
    registry,   \* function_definitions_llm of app.py
    nreq,       \* how many requests have been served
    endpoint,   \* the entry point of the request being answered, "none" between requests
    llm,        \* what the completion service did for the request
    outcome,    \* how the request ended
    invoked,    \* the handlers whose body ran for the request, in order
    events,     \* the effects of the request, in order
    bound,      \* the keyword arguments the invoked handler ran with
    defaulted,  \* the parameters of the invoked handler that took their default
    guard_in,   \* the path handed to validate_data_path (guard specification)
    guard_out,  \* what validate_data_path returned for it
    sort_in,    \* the contacts array given to sort_contacts (sort specification)
    first       \* the first request of the count specification: its answer and its input

vars == <<fs, registry, nreq, endpoint, llm, outcome, invoked, events, bound,
          defaulted, guard_in, guard_out, sort_in, first>>

-----------------------------------------------------------------------------
(* Bounds of the model.                                                    *)

\* requests served in one behaviour
MaxRequests == 2
\* segments of a path handed to the guard in the guard specification
MaxSegs == 3
\* contact records in the array of the sort specification
MaxContacts == 3
\* lines of the dates file of the count specification
MaxDates == 3

-----------------------------------------------------------------------------
(* Strings as Python sees them: sequences of characters.                   *)

\* str.startswith(prefix)
startswith(s, prefix) ==
    /\ Len(s) >= Len(prefix)
    /\ SubSeq(s, 1, Len(prefix)) = prefix

\* The characters of "/data", the literal of validate_data_path.
DataPrefix == <<"/", "d", "a", "t", "a">>

\* tasksB.validate_data_path: True iff the text of the path starts with "/data".
validate_data_path(filepath) ==
    IF startswith(filepath, DataPrefix) THEN TRUE ELSE FALSE

\* The path strings the model hands around, and their characters.
DataFile == "/data/a"
DataFile2 == "/data/b"
EtcFile == "/etc/p"
TraversalFile == "/data/../etc/p"
SiblingFile == "/database"

Chars(p) ==
    CASE p = "/data/a" -> <<"/", "d", "a", "t", "a", "/", "a">>
      [] p = "/data/b" -> <<"/", "d", "a", "t", "a", "/", "b">>
      [] p = "/etc/p" -> <<"/", "e", "t", "c", "/", "p">>
      [] p = "/data/../etc/p" ->
            <<"/", "d", "a", "t", "a", "/", ".", ".", "/", "e", "t", "c", "/", "p">>
      [] p = "/database" -> <<"/", "d", "a", "t", "a", "b", "a", "s", "e">>
      [] OTHER -> <<>>

(* What "rooted under /data" means: the path split at "/", its "." and ".."  *)
(* segments resolved as os.path.normpath resolves them, then compared with *)
(* the root segment by segment.                                            *)

RECURSIVE SplitFrom(_, _, _)
\* s split at "/" from position i on, cur being the segment read so far
SplitFrom(s, i, cur) ==
    IF i > Len(s) THEN <<cur>>
    ELSE IF s[i] = "/" THEN <<cur>> \o SplitFrom(s, i + 1, <<>>)
    ELSE SplitFrom(s, i + 1, Append(cur, s[i]))

Split(s) == SplitFrom(s, 1, <<>>)

IsAbsolute(s) == Len(s) >= 1 /\ s[1] = "/"

RECURSIVE Resolve(_, _, _)
\* the segments left after "", "." and ".." are resolved; abs: the path is absolute
Resolve(segs, acc, abs) ==
    IF segs = <<>> THEN acc
    ELSE LET h == Head(segs)
             t == Tail(segs)
         IN  IF h = <<>> \/ h = <<".">> THEN Resolve(t, acc, abs)
             ELSE IF h = <<".", ".">>
                  THEN IF acc # <<>> /\ acc[Len(acc)] # <<".", ".">>
                       THEN Resolve(t, SubSeq(acc, 1, Len(acc) - 1), abs)
                       ELSE IF abs THEN Resolve(t, acc, abs)
                            ELSE Resolve(t, Append(acc, h), abs)
                  ELSE Resolve(t, Append(acc, h), abs)

NormSegs(s) == Resolve(Split(s), <<>>, IsAbsolute(s))

\* the normalized path is /data or lies under it as a directory
UnderDataRoot(s) ==
    /\ IsAbsolute(s)
    /\ Len(NormSegs(s)) >= 1
    /\ NormSegs(s)[1] = <<"d", "a", "t", "a">>

-----------------------------------------------------------------------------
(* JSON text as a sequence of tokens, and json.loads on it.                *)

LBrace == [t |-> "punct", v |-> "{"]
RBrace == [t |-> "punct", v |-> "}"]
LBracket == [t |-> "punct", v |-> "["]
RBracket == [t |-> "punct", v |-> "]"]
Colon == [t |-> "punct", v |-> ":"]
Comma == [t |-> "punct", v |-> ","]
Null == [t |-> "null", v |-> "null"]
Str(s) == [t |-> "str", v |-> s]
Num(s) == [t |-> "num", v |-> s]

ScalarKinds == {"str", "num", "null"}

\* the object without members
EmptyObj == [k \in {} |-> Null]

\* d[k] = v of a Python dict
Put(d, k, v) == [x \in (DOMAIN d) \cup {k} |-> IF x = k THEN v ELSE d[x]]

JsonError == [ok |-> FALSE, kind |-> "JSONDecodeError", obj |-> EmptyObj]
JsonObject(d) == [ok |-> TRUE, kind |-> "object", obj |-> d]
JsonOther(k) == [ok |-> TRUE, kind |-> k, obj |-> EmptyObj]

RECURSIVE Members(_, _, _)
\* the members of an object from token i on, which must be a key; acc: those read
Members(toks, i, acc) ==
    IF i + 3 > Len(toks) THEN JsonError
    ELSE IF \/ toks[i].t # "str"
            \/ toks[i + 1] # Colon
            \/ toks[i + 2].t \notin ScalarKinds
         THEN JsonError
    ELSE LET acc2 == Put(acc, toks[i].v, toks[i + 2])
         IN  IF toks[i + 3] = RBrace
             THEN IF i + 3 = Len(toks) THEN JsonObject(acc2) ELSE JsonError
             ELSE IF toks[i + 3] = Comma THEN Members(toks, i + 4, acc2)
             ELSE JsonError

\* json.loads: an object of scalars, an empty array or a scalar; anything else
\* raises JSONDecodeError
json_loads(toks) ==
    IF toks = <<>> THEN JsonError
    ELSE IF toks[1] = LBrace
         THEN IF Len(toks) >= 2 /\ toks[2] = RBrace
              THEN IF Len(toks) = 2 THEN JsonObject(EmptyObj) ELSE JsonError
              ELSE Members(toks, 2, EmptyObj)
    ELSE IF toks = <<LBracket, RBracket>> THEN JsonOther("array")
    ELSE IF Len(toks) = 1 /\ toks[1].t \in ScalarKinds THEN JsonOther("scalar")
    ELSE JsonError

RECURSIVE MemberTokens(_, _, _)
\* the tokens of the members of d whose keys are keys[i..], in that order
MemberTokens(keys, i, d) ==
    IF i > Len(keys) THEN <<>>
    ELSE IF keys[i] \notin DOMAIN d THEN MemberTokens(keys, i + 1, d)
    ELSE LET rest == MemberTokens(keys, i + 1, d)
         IN  <<Str(keys[i]), Colon, d[keys[i]]>>
                \o (IF rest = <<>> THEN <<>> ELSE <<Comma>> \o rest)

\* the JSON text of the object d, its keys in the order of keys
json_dumps(keys, d) == <<LBrace>> \o MemberTokens(keys, 1, d) \o <<RBrace>>

-----------------------------------------------------------------------------
(* The Task Registry: function_definitions_llm, each task with the names   *)
(* of its declared properties and its required array.                      *)

TaskSpec(n, props, req) == [name |-> n, properties |-> props, required |-> req]

function_definitions_llm ==
    << TaskSpec("generate_data", <<"email">>, <<"filename", "targetfile", "email">>),
       TaskSpec("format_markdown", <<"prettier_version", "filename">>,
                <<"prettier_version", "filename">>),
       TaskSpec("count_weekday_dates", <<"filename", "targetfile", "weekday">>,
                <<"filename", "targetfile", "weekday">>),
       TaskSpec("sort_contacts", <<"filename", "targetfile">>, <<"filename", "targetfile">>),
       TaskSpec("get_recent_logs", <<"log_dir_path", "output_file_path", "num_files">>,
                <<"log_dir_path", "output_file_path", "num_files">>),
       TaskSpec("create_docs_index", <<"doc_dir_path", "output_file_path">>,
                <<"doc_dir_path", "output_file_path">>),
       TaskSpec("extract_email_sender", <<"filename", "output_file">>,
                <<"filename", "output_file">>),
       TaskSpec("process_credit_card", <<"filename", "image_path">>,
                <<"filename", "image_path">>),
       TaskSpec("find_similar_comments", <<"filename", "output_filename">>,
                <<"filename", "output_filename">>),
       TaskSpec("calculate_ticket_sales", <<"filename", "output_filename", "query">>,
                <<"filename", "output_filename", "query">>),
       TaskSpec("validate_data_path", <<"filepath">>, <<"filepath">>),
       TaskSpec("download_url_content", <<"url", "save_path">>, <<"url", "save_path">>),
       TaskSpec("execute_sql_query", <<"db_path", "query", "output_filename">>,
                <<"db_path", "query", "output_filename">>),
       TaskSpec("scrape_web_content", <<"url", "output_filename">>,
                <<"url", "output_filename">>),
       TaskSpec("process_image", <<"image_path", "output_path", "resize">>,
                <<"image_path", "output_path">>),
       TaskSpec("convert_markdown_to_html", <<"md_path", "output_path">>,
                <<"md_path", "output_path">>) >>

Range(s) == {s[i] : i \in DOMAIN s}

RegistryNames(reg) == {reg[i].name : i \in DOMAIN reg}

\* the task spec of a registry name
SpecOf(reg, n) == CHOOSE ts \in Range(reg) : ts.name = n

-----------------------------------------------------------------------------
(* Files and effects.  A file holds text, or the JSON text of an array of  *)
(* contact records (kept as the array json.load reads from it and          *)
(* json.dump writes to it).                                                *)

Text == [kind |-> "text", recs |-> <<>>]

\* a text file of dates, one a line, each line that holds a date kept as the
\* weekday the date falls on (datetime.weekday(): Monday is 0)
DateLine(w) == [weekday |-> w]
\* a line that is no date
BadLine == [bad |-> TRUE]
Dates(lines) == [kind |-> "text", recs |-> lines]

\* the text str(n): one line that holds a bare number
CountText(n) == [kind |-> "text", recs |-> <<[count |-> n]>>]
Contacts(recs) == [kind |-> "contacts", recs |-> recs]

Exists(fsx, p) == p \in DOMAIN fsx

\* open(p, 'w') ... write(content)
WriteFile(fsx, p, content) ==
    [q \in (DOMAIN fsx) \cup {p} |-> IF q = p THEN content ELSE fsx[q]]

Ev(op, path) == [op |-> op, path |-> path]

\* how a handler call ends: the exception it raised ("" for none), its
\* effects in order and the filesystem it leaves
Raised(e, evs, fsx) == [exc |-> e, events |-> evs, fs |-> fsx]
Returned(evs, fsx) == [exc |-> "", events |-> evs, fs |-> fsx]

\* the event of one validate_data_path call on the path string p
GuardEv(p) == Ev(IF validate_data_path(Chars(p)) THEN "guard_ok" ELSE "guard_reject", p)

-----------------------------------------------------------------------------
(* Python's ordering of strings and of tuples of strings.                  *)

\* ord(c) of the characters names are made of
Ord(c) == CASE c = "A" -> 65 [] c = "B" -> 66 [] c = "a" -> 97 [] OTHER -> 0

RECURSIVE StrLessFrom(_, _, _)
\* a < b, a and b being equal before position i
StrLessFrom(a, b, i) ==
    IF i > Len(b) THEN FALSE
    ELSE IF i > Len(a) THEN TRUE
    ELSE IF a[i] = b[i] THEN StrLessFrom(a, b, i + 1)
    ELSE Ord(a[i]) < Ord(b[i])

StrLess(a, b) == StrLessFrom(a, b, 1)

\* the sort key that orders by last name only
SortKeyLastOnly(x) == <<x.last_name, <<>>>>

\* key=lambda x: (x['last_name'], x['first_name'])
SortKey(x) == <<x.last_name, x.first_name>>

\* k1 < k2 of two tuples of two strings
TupleLess(k1, k2) ==
    IF k1[1] # k2[1] THEN StrLess(k1[1], k2[1]) ELSE StrLess(k1[2], k2[2])

RECURSIVE InsertSorted(_, _)
\* x put into the sorted list s after every element that is not greater
InsertSorted(s, x) ==
    IF s = <<>> THEN <<x>>
    ELSE IF TupleLess(SortKey(x), SortKey(Head(s))) THEN <<x>> \o s
    ELSE <<Head(s)>> \o InsertSorted(Tail(s), x)

RECURSIVE SortedFrom(_, _, _)
SortedFrom(s, i, acc) ==
    IF i > Len(s) THEN acc ELSE SortedFrom(s, i + 1, InsertSorted(acc, s[i]))

\* sorted(contacts, key=...): the stable ascending sort
sorted(contacts) == SortedFrom(contacts, 1, <<>>)

-----------------------------------------------------------------------------
(* The handlers of tasksA.py.  kw maps each parameter to its JSON value;   *)
(* env is "ok" or "fail": whether the handler's external collaborator (a   *)
(* subprocess, the network, the database engine, a library import, the     *)
(* parse of the input's data) works.                                       *)

generate_data(fsx, kw, env) ==
    IF env = "ok" THEN Returned(<<Ev("exec", "uv")>>, fsx)
    ELSE Raised("NameError", <<Ev("exec", "uv")>>, fsx)

\* the executable may be absent (FileNotFoundError); a failing run is only printed
format_markdown(fsx, kw, env) ==
    IF env = "ok" THEN Returned(<<Ev("exec", "npx")>>, fsx)
    ELSE Raised("FileNotFoundError", <<Ev("exec", "npx")>>, fsx)

\* int(weekday) of a JSON value: 0 stands for the values int() raises on
IntOf(v) ==
    IF v.t = "null" THEN 0
    ELSE CASE v.v = "1" -> 1 [] v.v = "2" -> 2 [] v.v = "3" -> 3 [] v.v = "4" -> 4
           [] v.v = "5" -> 5 [] v.v = "6" -> 6 [] v.v = "7" -> 7 [] v.v = "10" -> 10
           [] OTHER -> 0

\* parse(date).weekday() == int(weekday)-1 for one line.  A line that holds a
\* full date has its weekday; a bare number is read as a day of the current
\* month, and falls on the weekday asked for only when env is "match".
LineMatches(line, weekday, env) ==
    IF "weekday" \in DOMAIN line THEN line.weekday = IntOf(weekday) - 1
    ELSE env = "match"

\* sum(1 for date in file if ...)
CountMatching(lines, weekday, env) ==
    Cardinality({i \in DOMAIN lines : LineMatches(lines[i], weekday, env)})

\* what the generator raises first: parse(date) on the first line that is no
\* date, or int(weekday) on the first line when weekday is no number; "" when
\* it raises nothing (a file without lines raises nothing)
FirstFailure(lines, weekday) ==
    IF lines = <<>> THEN ""
    ELSE IF "bad" \in DOMAIN lines[1] THEN "ParserError"
    ELSE IF IntOf(weekday) = 0
    THEN (IF weekday.t = "null" THEN "TypeError" ELSE "ValueError")
    ELSE IF \E i \in DOMAIN lines : "bad" \in DOMAIN lines[i] THEN "ParserError"
    ELSE ""

\* the count appended to what the output file holds instead of replacing it
count_weekday_dates_append(fsx, kw, env) ==
    LET input_file == kw.filename.v
        output_file == kw.targetfile.v
        lines == fsx[input_file].recs
        old == IF Exists(fsx, output_file) /\ fsx[output_file].kind = "text"
               THEN fsx[output_file].recs ELSE <<>>
    IN  IF ~Exists(fsx, input_file)
        THEN Raised("FileNotFoundError", <<>>, fsx)
        ELSE IF fsx[input_file].kind # "text"
        THEN Raised("ParserError", <<Ev("read", input_file)>>, fsx)
        ELSE IF FirstFailure(lines, kw.weekday) # ""
        THEN Raised(FirstFailure(lines, kw.weekday), <<Ev("read", input_file)>>, fsx)
        ELSE Returned(<<Ev("read", input_file), Ev("write", output_file)>>,
                      WriteFile(fsx, output_file, Dates(old \o CountText(CountMatching(lines, kw.weekday, env)).recs)))

\* count_weekday_dates: the lines are read and counted, then the output is
\* opened with 'w' and the count written
count_weekday_dates(fsx, kw, env) ==
    LET input_file == kw.filename.v
        output_file == kw.targetfile.v
        lines == fsx[input_file].recs
    IN  IF ~Exists(fsx, input_file)
        THEN Raised("FileNotFoundError", <<>>, fsx)
        ELSE IF fsx[input_file].kind # "text"
        THEN Raised("ParserError", <<Ev("read", input_file)>>, fsx)
        ELSE IF FirstFailure(lines, kw.weekday) # ""
        THEN Raised(FirstFailure(lines, kw.weekday), <<Ev("read", input_file)>>, fsx)
        ELSE Returned(<<Ev("read", input_file), Ev("write", output_file)>>,
                      WriteFile(fsx, output_file, CountText(CountMatching(lines, kw.weekday, env))))

sort_contacts(fsx, kw, env) ==
    LET filename == kw.filename.v
        targetfile == kw.targetfile.v
    IN  IF ~Exists(fsx, filename)
        THEN Raised("FileNotFoundError", <<>>, fsx)
        ELSE IF fsx[filename].kind # "contacts"
        THEN Raised("JSONDecodeError", <<Ev("read", filename)>>, fsx)
        ELSE Returned(<<Ev("read", filename), Ev("write", targetfile)>>,
                      WriteFile(fsx, targetfile, Contacts(sorted(fsx[filename].recs))))

\* the output file is opened for writing before the log files are read
get_recent_logs(fsx, kw, env) ==
    IF kw.num_files.t = "str"
    THEN Raised("TypeError", <<Ev("read", kw.log_dir_path.v)>>, fsx)
    ELSE IF env # "ok"
    THEN Raised("OSError",
                <<Ev("read", kw.log_dir_path.v), Ev("write", kw.output_file_path.v)>>,
                WriteFile(fsx, kw.output_file_path.v, Text))
    ELSE Returned(<<Ev("read", kw.log_dir_path.v), Ev("write", kw.output_file_path.v)>>,
                  WriteFile(fsx, kw.output_file_path.v, Text))

create_docs_index(fsx, kw, env) ==
    IF env # "ok"
    THEN Raised("UnicodeDecodeError", <<Ev("read", kw.doc_dir_path.v)>>, fsx)
    ELSE Returned(<<Ev("read", kw.doc_dir_path.v), Ev("write", kw.output_file_path.v)>>,
                  WriteFile(fsx, kw.output_file_path.v, Text))

extract_email_sender(fsx, kw, env) ==
    IF ~Exists(fsx, kw.filename.v)
    THEN Raised("FileNotFoundError", <<>>, fsx)
    ELSE Returned(<<Ev("read", kw.filename.v), Ev("write", kw.output_file.v)>>,
                  WriteFile(fsx, kw.output_file.v, Text))

process_credit_card(fsx, kw, env) ==
    IF ~Exists(fsx, kw.image_path.v)
    THEN Raised("FileNotFoundError", <<>>, fsx)
    ELSE IF env # "ok"
    THEN Raised("ConnectionError", <<Ev("read", kw.image_path.v), Ev("fetch", "aiproxy")>>, fsx)
    ELSE Returned(<<Ev("read", kw.image_path.v), Ev("fetch", "aiproxy"),
                    Ev("write", kw.filename.v)>>,
                  WriteFile(fsx, kw.filename.v, Text))

find_similar_comments(fsx, kw, env) ==
    IF ~Exists(fsx, kw.filename.v)
    THEN Raised("FileNotFoundError", <<>>, fsx)
    ELSE IF env # "ok"
    THEN Raised("HTTPError", <<Ev("read", kw.filename.v), Ev("fetch", "aiproxy")>>, fsx)
    ELSE Returned(<<Ev("read", kw.filename.v), Ev("fetch", "aiproxy"),
                    Ev("write", kw.output_filename.v)>>,
                  WriteFile(fsx, kw.output_filename.v, Text))

\* connecting to a database file that does not exist creates it
Connect(fsx, p) == IF Exists(fsx, p) THEN fsx ELSE WriteFile(fsx, p, Text)

calculate_ticket_sales(fsx, kw, env) ==
    IF env # "ok" \/ ~Exists(fsx, kw.filename.v)
    THEN Raised("OperationalError", <<Ev("db", kw.filename.v)>>, Connect(fsx, kw.filename.v))
    ELSE Returned(<<Ev("db", kw.filename.v), Ev("write", kw.output_filename.v)>>,
                  WriteFile(fsx, kw.output_filename.v, Text))

-----------------------------------------------------------------------------
(* The handlers of tasksB.py.                                              *)

\* validate_data_path called as a task: its result is dropped by run_task
validate_data_path_task(fsx, kw, env) ==
    IF kw.filepath.t # "str" THEN Raised("AttributeError", <<>>, fsx)
    ELSE Returned(<<GuardEv(kw.filepath.v)>>, fsx)

download_url_content(fsx, kw, env) ==
    LET save_path == kw.save_path.v
    IN  IF kw.save_path.t # "str" THEN Raised("AttributeError", <<>>, fsx)
        ELSE IF ~validate_data_path(Chars(save_path))
        THEN Returned(<<GuardEv(save_path)>>, fsx)
        ELSE IF env # "ok"
        THEN Raised("ConnectionError", <<GuardEv(save_path), Ev("fetch", kw.url.v)>>, fsx)
        ELSE Returned(<<GuardEv(save_path), Ev("fetch", kw.url.v), Ev("write", save_path)>>,
                      WriteFile(fsx, save_path, Text))

execute_sql_query(fsx, kw, env) ==
    LET db_path == kw.db_path.v
        output_filename == kw.output_filename.v
    IN  IF kw.db_path.t # "str" THEN Raised("AttributeError", <<>>, fsx)
        ELSE IF ~validate_data_path(Chars(db_path))
        THEN Returned(<<GuardEv(db_path)>>, fsx)
        ELSE IF env # "ok" \/ ~Exists(fsx, db_path)
        THEN Raised("OperationalError", <<GuardEv(db_path), Ev("db", db_path)>>,
                    Connect(fsx, db_path))
        ELSE Returned(<<GuardEv(db_path), Ev("db", db_path), Ev("write", output_filename)>>,
                      WriteFile(fsx, output_filename, Text))

scrape_web_content(fsx, kw, env) ==
    IF env # "ok"
    THEN Raised("ConnectionError", <<Ev("fetch", kw.url.v)>>, fsx)
    ELSE Returned(<<Ev("fetch", kw.url.v), Ev("write", kw.output_filename.v)>>,
                  WriteFile(fsx, kw.output_filename.v, Text))

\* a process_image that opens the image before it checks output_path
process_image_opens_first(fsx, kw, env) ==
    LET image_path == kw.image_path.v
        output_path == kw.output_path.v
    IN  IF env # "ok" THEN Raised("ModuleNotFoundError", <<>>, fsx)
        ELSE IF kw.image_path.t # "str" THEN Raised("AttributeError", <<>>, fsx)
        ELSE IF ~validate_data_path(Chars(image_path))
        THEN Returned(<<GuardEv(image_path)>>, fsx)
        ELSE IF ~Exists(fsx, image_path)
        THEN Raised("FileNotFoundError", <<GuardEv(image_path)>>, fsx)
        ELSE IF kw.output_path.t # "str"
        THEN Raised("AttributeError", <<GuardEv(image_path), Ev("read", image_path)>>, fsx)
        ELSE IF ~validate_data_path(Chars(output_path))
        THEN Returned(<<GuardEv(image_path), Ev("read", image_path),
                        GuardEv(output_path)>>, fsx)
        ELSE Returned(<<GuardEv(image_path), Ev("read", image_path),
                        GuardEv(output_path), Ev("write", output_path)>>,
                      WriteFile(fsx, output_path, Text))

process_image(fsx, kw, env) ==
    LET image_path == kw.image_path.v
        output_path == kw.output_path.v
    IN  IF env # "ok" THEN Raised("ModuleNotFoundError", <<>>, fsx)
        ELSE IF kw.image_path.t # "str" THEN Raised("AttributeError", <<>>, fsx)
        ELSE IF ~validate_data_path(Chars(image_path))
        THEN Returned(<<GuardEv(image_path)>>, fsx)
        ELSE IF kw.output_path.t # "str"
        THEN Raised("AttributeError", <<GuardEv(image_path)>>, fsx)
        ELSE IF ~validate_data_path(Chars(output_path))
        THEN Returned(<<GuardEv(image_path), GuardEv(output_path)>>, fsx)
        ELSE IF ~Exists(fsx, image_path)
        THEN Raised("FileNotFoundError", <<GuardEv(image_path), GuardEv(output_path)>>, fsx)
        ELSE Returned(<<GuardEv(image_path), GuardEv(output_path),
                        Ev("read", image_path), Ev("write", output_path)>>,
                      WriteFile(fsx, output_path, Text))

convert_markdown_to_html(fsx, kw, env) ==
    LET md_path == kw.md_path.v
        output_path == kw.output_path.v
    IN  IF env # "ok" THEN Raised("ModuleNotFoundError", <<>>, fsx)
        ELSE IF kw.md_path.t # "str" THEN Raised("AttributeError", <<>>, fsx)
        ELSE IF ~validate_data_path(Chars(md_path))
        THEN Returned(<<GuardEv(md_path)>>, fsx)
        ELSE IF kw.output_path.t # "str"
        THEN Raised("AttributeError", <<GuardEv(md_path)>>, fsx)
        ELSE IF ~validate_data_path(Chars(output_path))
        THEN Returned(<<GuardEv(md_path), GuardEv(output_path)>>, fsx)
        ELSE IF ~Exists(fsx, md_path)
        THEN Raised("FileNotFoundError", <<GuardEv(md_path), GuardEv(output_path)>>, fsx)
        ELSE Returned(<<GuardEv(md_path), GuardEv(output_path),
                        Ev("read", md_path), Ev("write", output_path)>>,
                      WriteFile(fsx, output_path, Text))

-----------------------------------------------------------------------------
(* Keyword binding: handler called with the keywords of json.loads(arguments).                      *)

\* the parameters of each handler's def line, in order
Params(h) ==
    CASE h = "generate_data" -> <<"email">>
      [] h = "format_markdown" -> <<"prettier_version", "filename">>
      [] h = "count_weekday_dates" -> <<"filename", "targetfile", "weekday">>
      [] h = "sort_contacts" -> <<"filename", "targetfile">>
      [] h = "get_recent_logs" -> <<"log_dir_path", "output_file_path", "num_files">>
      [] h = "create_docs_index" -> <<"doc_dir_path", "output_file_path">>
      [] h = "extract_email_sender" -> <<"filename", "output_file">>
      [] h = "process_credit_card" -> <<"filename", "image_path">>
      [] h = "find_similar_comments" -> <<"filename", "output_filename">>
      [] h = "calculate_ticket_sales" -> <<"filename", "output_filename", "query">>
      [] h = "validate_data_path" -> <<"filepath">>
      [] h = "download_url_content" -> <<"url", "save_path">>
      [] h = "execute_sql_query" -> <<"db_path", "query", "output_filename">>
      [] h = "scrape_web_content" -> <<"url", "output_filename">>
      [] h = "process_image" -> <<"image_path", "output_path", "resize">>
      [] h = "convert_markdown_to_html" -> <<"md_path", "output_path">>

\* the default values of each handler's def line
Defaults(h) ==
    CASE h = "generate_data" -> [email |-> Str("22f1000913@ds.study.iitm.ac.in")]
      [] h = "format_markdown" ->
            [prettier_version |-> Str("prettier@3.4.2"), filename |-> Str("/data/format.md")]
      [] h = "count_weekday_dates" ->
            [filename |-> Str("/data/dates.txt"),
             targetfile |-> Str("/data/dates-wednesdays.txt"), weekday |-> Num("2")]
      [] h = "sort_contacts" ->
            [filename |-> Str("/data/contacts.json"),
             targetfile |-> Str("/data/contacts-sorted.json")]
      [] h = "get_recent_logs" ->
            [log_dir_path |-> Str("/data/logs"),
             output_file_path |-> Str("/data/logs-recent.txt"), num_files |-> Num("10")]
      [] h = "create_docs_index" ->
            [doc_dir_path |-> Str("/data/docs"),
             output_file_path |-> Str("/data/docs/index.json")]
      [] h = "extract_email_sender" ->
            [filename |-> Str("/data/email.txt"), output_file |-> Str("/data/email-sender.txt")]
      [] h = "process_credit_card" ->
            [filename |-> Str("/data/credit_card.txt"),
             image_path |-> Str("/data/credit_card.png")]
      [] h = "find_similar_comments" ->
            [filename |-> Str("/data/comments.txt"),
             output_filename |-> Str("/data/comments-similar.txt")]
      [] h = "calculate_ticket_sales" ->
            [filename |-> Str("/data/ticket-sales.db"),
             output_filename |-> Str("/data/ticket-sales-gold.txt"),
             query |-> Str("SELECT SUM(units * price) FROM tickets WHERE type = 'Gold'")]
      [] h = "process_image" -> [resize |-> Null]
      [] OTHER -> EmptyObj

BindError == [ok |-> FALSE, kw |-> EmptyObj, defaulted |-> {}]

\* h called with the keywords of obj: TypeError on an unexpected keyword and on a missing parameter
\* that has no default; a missing parameter with a default takes it
Bind(h, obj) ==
    LET params == Range(Params(h))
        defs == Defaults(h)
    IN  IF (DOMAIN obj) \ params # {} THEN BindError
        ELSE IF \E q \in params : q \notin DOMAIN obj /\ q \notin DOMAIN defs
        THEN BindError
        ELSE [ok |-> TRUE,
              kw |-> [q \in params |-> IF q \in DOMAIN obj THEN obj[q] ELSE defs[q]],
              defaulted |-> params \ DOMAIN obj]

\* the body of handler h run on the filesystem fsx
Call(h, fsx, kw, env) ==
    CASE h = "generate_data" -> generate_data(fsx, kw, env)
      [] h = "format_markdown" -> format_markdown(fsx, kw, env)
      [] h = "count_weekday_dates" -> count_weekday_dates(fsx, kw, env)
      [] h = "sort_contacts" -> sort_contacts(fsx, kw, env)
      [] h = "get_recent_logs" -> get_recent_logs(fsx, kw, env)
      [] h = "create_docs_index" -> create_docs_index(fsx, kw, env)
      [] h = "extract_email_sender" -> extract_email_sender(fsx, kw, env)
      [] h = "process_credit_card" -> process_credit_card(fsx, kw, env)
      [] h = "find_similar_comments" -> find_similar_comments(fsx, kw, env)
      [] h = "calculate_ticket_sales" -> calculate_ticket_sales(fsx, kw, env)
      [] h = "validate_data_path" -> validate_data_path_task(fsx, kw, env)
      [] h = "download_url_content" -> download_url_content(fsx, kw, env)
      [] h = "execute_sql_query" -> execute_sql_query(fsx, kw, env)
      [] h = "scrape_web_content" -> scrape_web_content(fsx, kw, env)
      [] h = "process_image" -> process_image(fsx, kw, env)
      [] h = "convert_markdown_to_html" -> convert_markdown_to_html(fsx, kw, env)

-----------------------------------------------------------------------------
(* get_completions and run_task of app.py.                                 *)

\* the "tools" of the request body: a new list, one item per task spec
Tools(reg) == [i \in DOMAIN reg |-> [type |-> "function", function |-> reg[i]]]

\* the registry had the request body been built by taking the specs off it
RegistryConsumed(reg) == IF reg = <<>> THEN reg ELSE Tail(reg)

\* the registry once get_completions has built the request body: the
\* comprehension iterates function_definitions_llm and assigns nothing to it
RegistryAfterRequest(reg) == reg

\* a get_completions that subscripts the tool calls with -1
get_completions_last(ans) ==
    IF ans.status = "unreachable" THEN [exc |-> "ConnectError", value |-> <<>>]
    ELSE IF ans.status = "timeout" THEN [exc |-> "TimeoutException", value |-> <<>>]
    ELSE IF ans.status = "malformed" THEN [exc |-> "KeyError", value |-> <<>>]
    ELSE IF ans.tool_calls = <<>> THEN [exc |-> "IndexError", value |-> <<>>]
    ELSE [exc |-> "", value |-> ans.tool_calls[Len(ans.tool_calls)]]

\* response.json()["choices"][0]["message"]["tool_calls"][0]["function"],
\* or the exception the request or one of the subscripts raises
get_completions(ans) ==
    IF ans.status = "unreachable" THEN [exc |-> "ConnectError", value |-> <<>>]
    ELSE IF ans.status = "timeout" THEN [exc |-> "TimeoutException", value |-> <<>>]
    ELSE IF ans.status = "malformed" THEN [exc |-> "KeyError", value |-> <<>>]
    ELSE IF ans.tool_calls = <<>> THEN [exc |-> "IndexError", value |-> <<>>]
    ELSE [exc |-> "", value |-> ans.tool_calls[1]]

Branch(n, h) == [name |-> n, handler |-> h]

\* a chain that lacks the last if statement and calls the scraper for the
\* download task
BranchesMisbound ==
    << Branch("generate_data", "generate_data"),
       Branch("format_markdown", "format_markdown"),
       Branch("count_weekday_dates", "count_weekday_dates"),
       Branch("sort_contacts", "sort_contacts"),
       Branch("get_recent_logs", "get_recent_logs"),
       Branch("create_docs_index", "create_docs_index"),
       Branch("extract_email_sender", "extract_email_sender"),
       Branch("process_credit_card", "process_credit_card"),
       Branch("find_similar_comments", "find_similar_comments"),
       Branch("calculate_ticket_sales", "calculate_ticket_sales"),
       Branch("validate_data_path", "validate_data_path"),
       Branch("download_url_content", "scrape_web_content"),
       Branch("execute_sql_query", "execute_sql_query"),
       Branch("scrape_web_content", "scrape_web_content"),
       Branch("process_image", "process_image") >>

\* the if statements of run_task, in order: the name compared with
\* task_code and the handler called
Branches ==
    << Branch("generate_data", "generate_data"),
       Branch("format_markdown", "format_markdown"),
       Branch("count_weekday_dates", "count_weekday_dates"),
       Branch("sort_contacts", "sort_contacts"),
       Branch("get_recent_logs", "get_recent_logs"),
       Branch("create_docs_index", "create_docs_index"),
       Branch("extract_email_sender", "extract_email_sender"),
       Branch("process_credit_card", "process_credit_card"),
       Branch("find_similar_comments", "find_similar_comments"),
       Branch("calculate_ticket_sales", "calculate_ticket_sales"),
       Branch("validate_data_path", "validate_data_path"),
       Branch("download_url_content", "download_url_content"),
       Branch("execute_sql_query", "execute_sql_query"),
       Branch("scrape_web_content", "scrape_web_content"),
       Branch("process_image", "process_image"),
       Branch("convert_markdown_to_html", "convert_markdown_to_html") >>

\* the state before the first if statement
Entered(fsx) ==
    [exc |-> "", events |-> <<>>, fs |-> fsx, invoked |-> <<>>,
     bound |-> EmptyObj, defaulted |-> {}]

\* an if statement that also fires for the task named before it in the chain
RunBranchFallThrough(st, br, task_code, arguments, env) ==
    IF st.exc # "" THEN st
    ELSE IF br.name # task_code /\ ~(br.name = "sort_contacts" /\ task_code = "count_weekday_dates")
    THEN st
    ELSE LET parsed == json_loads(arguments)
             b == Bind(br.handler, parsed.obj)
             r == Call(br.handler, st.fs, b.kw, env)
         IN  IF ~parsed.ok THEN [st EXCEPT !.exc = "JSONDecodeError"]
             ELSE IF parsed.kind # "object" \/ ~b.ok THEN [st EXCEPT !.exc = "TypeError"]
             ELSE [exc |-> r.exc, events |-> st.events \o r.events, fs |-> r.fs,
                   invoked |-> Append(st.invoked, br.handler),
                   bound |-> b.kw, defaulted |-> b.defaulted]

\* one if statement: if br.name == task_code: br.handler called with the keywords of json.loads(arguments);
\* skipped once an earlier one has raised
RunBranch(st, br, task_code, arguments, env) ==
    IF st.exc # "" THEN st
    ELSE IF br.name # task_code THEN st
    ELSE LET parsed == json_loads(arguments)
             b == Bind(br.handler, parsed.obj)
             r == Call(br.handler, st.fs, b.kw, env)
         IN  IF ~parsed.ok THEN [st EXCEPT !.exc = "JSONDecodeError"]
             ELSE IF parsed.kind # "object" \/ ~b.ok THEN [st EXCEPT !.exc = "TypeError"]
             ELSE [exc |-> r.exc, events |-> st.events \o r.events, fs |-> r.fs,
                   invoked |-> Append(st.invoked, br.handler),
                   bound |-> b.kw, defaulted |-> b.defaulted]

RECURSIVE Dispatch(_, _, _, _, _)
\* the if statements from the i-th on
Dispatch(st, i, task_code, arguments, env) ==
    IF i > Len(Branches) THEN st
    ELSE Dispatch(RunBranch(st, Branches[i], task_code, arguments, env),
                  i + 1, task_code, arguments, env)

\* an except clause that catches the decoding and value errors only
ExceptClauseNarrow(e) == e \in {"JSONDecodeError", "ValueError"}

\* except Exception: every exception but the BaseException-only ones
ExceptClause(e) == e \notin {"KeyboardInterrupt", "SystemExit", "GeneratorExit"}

Outcome(k, task_code, detail) == [kind |-> k, task |-> task_code, detail |-> detail]

\* a run_task whose chain of if statements ends in an else that raises
run_task_else_raises(fsx, ans, env) ==
    LET c == get_completions(ans)
        d == Dispatch(Entered(fsx), 1, c.value.name, c.value.arguments, env)
    IN  IF c.exc # ""
        THEN [st |-> Entered(fsx),
              out |-> IF ExceptClause(c.exc) THEN Outcome("http400", "", c.exc)
                      ELSE Outcome("uncaught", "", c.exc)]
        ELSE IF \A i \in DOMAIN Branches : Branches[i].name # c.value.name
        THEN [st |-> Entered(fsx), out |-> Outcome("http400", c.value.name, "ValueError")]
        ELSE IF d.exc # ""
        THEN [st |-> d,
              out |-> IF ExceptClause(d.exc) THEN Outcome("http400", c.value.name, d.exc)
                      ELSE Outcome("uncaught", c.value.name, d.exc)]
        ELSE [st |-> d, out |-> Outcome("success", c.value.name, "executed successfully")]

\* run_task on the completion service's answer ans: the outcome and the
\* state the dispatch leaves
run_task(fsx, ans, env) ==
    LET c == get_completions(ans)
        d == Dispatch(Entered(fsx), 1, c.value.name, c.value.arguments, env)
    IN  IF c.exc # ""
        THEN [st |-> Entered(fsx),
              out |-> IF ExceptClause(c.exc) THEN Outcome("http400", "", c.exc)
                      ELSE Outcome("uncaught", "", c.exc)]
        ELSE IF d.exc # ""
        THEN [st |-> d,
              out |-> IF ExceptClause(d.exc) THEN Outcome("http400", c.value.name, d.exc)
                      ELSE Outcome("uncaught", c.value.name, d.exc)]
        ELSE [st |-> d, out |-> Outcome("success", c.value.name, "executed successfully")]

\* ask: the classifier's answer returned as it is; nothing is caught
ask(ans) ==
    LET c == get_completions(ans)
    IN  IF c.exc # "" THEN Outcome("uncaught", "", c.exc)
        ELSE Outcome("result", c.value.name, "")

-----------------------------------------------------------------------------
(* What the completion service may answer: the inputs of the model.        *)

\* the handlers of tasksB.py, whose path arguments are drawn from every kind of path
TasksB == {"validate_data_path", "download_url_content", "execute_sql_query",
           "scrape_web_content", "process_image", "convert_markdown_to_html"}

PathKeys == {"filename", "targetfile", "log_dir_path", "output_file_path",
             "doc_dir_path", "output_file", "image_path", "output_filename",
             "filepath", "save_path", "db_path", "output_path", "md_path"}

\* the values the answer may give the key k of the task n
Choices(n, k) ==
    IF k \in PathKeys
    THEN IF n \in TasksB
         THEN {Str(DataFile), Str(EtcFile), Str(TraversalFile), Str(SiblingFile)}
         ELSE {Str(DataFile), Str(DataFile2)}
    ELSE CASE k = "weekday" -> {Num("3"), Str("Wednesday")}
           [] k = "num_files" -> {Num("2")}
           [] k = "resize" -> {Null}
           [] k = "url" -> {Str("http://example.org/x")}
           [] k = "query" -> {Str("SELECT 1")}
           [] k = "email" -> {Str("user@example.org")}
           [] k = "prettier_version" -> {Str("prettier@3.4.2")}

\* the keys an answer may use for a task: its properties, then the names
\* that are only in its required array
SchemaKeys(ts) ==
    ts.properties \o SelectSeq(ts.required, LAMBDA k : k \notin Range(ts.properties))

\* the argument objects over any subset of the schema's keys
Objects(ts) ==
    UNION { { d \in [K -> UNION {Choices(ts.name, k) : k \in K}] :
                \A k \in K : d[k] \in Choices(ts.name, k) } :
            K \in SUBSET Range(SchemaKeys(ts)) }

ToolCall(n, a) == [name |-> n, arguments |-> a]

\* a task name the registry does not hold
UnknownName == "clone_git_repo"

\* the argument texts for a registry task: every object, one text cut short
\* (the closing brace is missing), and one that is an array
ArgTexts(ts) ==
    { json_dumps(SchemaKeys(ts), d) : d \in Objects(ts) }
        \cup { <<LBrace, Str(SchemaKeys(ts)[1]), Colon>>, <<LBracket, RBracket>> }

ToolCalls ==
    UNION { { ToolCall(ts.name, a) : a \in ArgTexts(ts) } :
            ts \in Range(function_definitions_llm) }
        \cup { ToolCall(UnknownName, <<LBrace, RBrace>>),
               ToolCall(UnknownName, <<LBrace, Str("repo_url"), Colon>>) }

\* a second tool call of an answer that carries two
SecondCall ==
    ToolCall("scrape_web_content",
             <<LBrace, Str("url"), Colon, Str("http://example.org/x"), Comma,
               Str("output_filename"), Colon, Str(DataFile2), RBrace>>)

Answer(s, calls) == [status |-> s, tool_calls |-> calls]

Answers ==
    { Answer("unreachable", <<>>), Answer("timeout", <<>>), Answer("malformed", <<>>),
      Answer("ok", <<>>) }
        \cup { Answer("ok", <<c>>) : c \in ToolCalls }
        \cup { Answer("ok", <<c, SecondCall>>) :
                 c \in { x \in ToolCalls : x.name \in {"validate_data_path", UnknownName} } }

\* "match": as "ok" for the date parser, with today's month such that a bare
\* day number falls on the weekday asked for
Envs == {"ok", "fail", "match"}

NoAnswer == Answer("none", <<>>)
NoFirst == [ans |-> NoAnswer, input |-> <<>>]
NoOutcome == Outcome("none", "", "")

\* a contacts file as the data generator leaves it: not sorted
InitialContacts ==
    << [last_name |-> <<"B">>, first_name |-> <<"A">>, email |-> "x"],
       [last_name |-> <<"A">>, first_name |-> <<"B">>, email |-> "y"] >>

\* a dates file as the data generator leaves it
InitialDates == <<DateLine(2), DateLine(1), DateLine(2)>>

InitialFs == [p \in {DataFile, DataFile2} |->
                 IF p = DataFile THEN Contacts(InitialContacts) ELSE Dates(InitialDates)]

-----------------------------------------------------------------------------
(* The service: requests to /run and /ask, one after the other.            *)

Init ==
    /\ fs = InitialFs
    /\ registry = function_definitions_llm
    /\ nreq = 0
    /\ endpoint = "none"
    /\ llm = NoAnswer
    /\ outcome = NoOutcome
    /\ invoked = <<>>
    /\ events = <<>>
    /\ bound = EmptyObj
    /\ defaulted = {}
    /\ guard_in = <<>>
    /\ guard_out = "none"
    /\ sort_in = <<>>
    /\ first = NoFirst

\* POST /run
RunTask ==
    /\ endpoint = "none"
    /\ nreq < MaxRequests
    /\ \E ans \in Answers, env \in Envs :
          LET r == run_task(fs, ans, env)
          IN  /\ llm' = ans
              /\ outcome' = r.out
              /\ fs' = r.st.fs
              /\ invoked' = r.st.invoked
              /\ events' = r.st.events
              /\ bound' = r.st.bound
              /\ defaulted' = r.st.defaulted
    /\ endpoint' = "run"
    /\ nreq' = nreq + 1
    /\ registry' = RegistryAfterRequest(registry)
    /\ UNCHANGED <<guard_in, guard_out, sort_in, first>>

\* GET /ask
Ask ==
    /\ endpoint = "none"
    /\ nreq < MaxRequests
    /\ \E ans \in Answers :
          /\ llm' = ans
          /\ outcome' = ask(ans)
    /\ endpoint' = "ask"
    /\ nreq' = nreq + 1
    /\ invoked' = <<>>
    /\ events' = <<>>
    /\ bound' = EmptyObj
    /\ defaulted' = {}
    /\ registry' = RegistryAfterRequest(registry)
    /\ UNCHANGED <<fs, guard_in, guard_out, sort_in, first>>

\* read_file: GET /read, the content of the file or 404 when it does not exist
read_file(fsx, path) ==
    IF Exists(fsx, path) THEN Outcome("content", "", fsx[path].kind)
    ELSE Outcome("http404", "", "File not found")

\* GET /read
ReadFile ==
    /\ endpoint = "none"
    /\ nreq < MaxRequests
    /\ \E path \in {DataFile, EtcFile} : outcome' = read_file(fs, path)
    /\ endpoint' = "read"
    /\ nreq' = nreq + 1
    /\ UNCHANGED <<fs, registry, llm, invoked, events, bound, defaulted,
                   guard_in, guard_out, sort_in, first>>

\* the response is sent: nothing of the request is kept but its effects on
\* the filesystem
Respond ==
    /\ endpoint # "none"
    /\ endpoint' = "none"
    /\ llm' = NoAnswer
    /\ outcome' = NoOutcome
    /\ invoked' = <<>>
    /\ events' = <<>>
    /\ bound' = EmptyObj
    /\ defaulted' = {}
    /\ UNCHANGED <<fs, registry, nreq, guard_in, guard_out, sort_in, first>>

Next == RunTask \/ Ask \/ ReadFile \/ Respond

Spec == Init /\ [][Next]_vars

-----------------------------------------------------------------------------
(* The guard specification: validate_data_path on every path of up to      *)
(* MaxSegs segments, absolute or relative.                                 *)

Segments == { <<"d", "a", "t", "a">>, <<"d", "a", "t", "a", "b", "a", "s", "e">>,
              <<"e", "t", "c">>, <<".", ".">>, <<".">> }

RECURSIVE JoinSegs(_, _)
\* the segments of segs from the i-th on, each after a "/"
JoinSegs(segs, i) ==
    IF i > Len(segs) THEN <<>> ELSE <<"/">> \o segs[i] \o JoinSegs(segs, i + 1)

\* "/a/b" for an absolute path, "a/b" for a relative one
PathText(segs, abs) ==
    IF abs THEN (IF segs = <<>> THEN <<"/">> ELSE JoinSegs(segs, 1))
    ELSE (IF segs = <<>> THEN <<>> ELSE Tail(JoinSegs(segs, 1)))

GuardPaths ==
    { PathText(segs, abs) :
        segs \in UNION { [1..n -> Segments] : n \in 0..MaxSegs }, abs \in BOOLEAN }

InitGuard ==
    /\ fs = InitialFs
    /\ registry = function_definitions_llm
    /\ nreq = 0
    /\ endpoint = "none"
    /\ llm = NoAnswer
    /\ outcome = NoOutcome
    /\ invoked = <<>>
    /\ events = <<>>
    /\ bound = EmptyObj
    /\ defaulted = {}
    /\ guard_in \in GuardPaths
    /\ guard_out = "none"
    /\ sort_in = <<>>
    /\ first = NoFirst

\* validate_data_path(guard_in)
Validate ==
    /\ guard_out = "none"
    /\ guard_out' = IF validate_data_path(guard_in) THEN "True" ELSE "False"
    /\ UNCHANGED <<fs, registry, nreq, endpoint, llm, outcome, invoked, events, bound,
                   defaulted, guard_in, sort_in, first>>

NextGuard == Validate

SpecGuard == InitGuard /\ [][NextGuard]_vars

-----------------------------------------------------------------------------
(* The sort specification: the contacts-sorting request on every contacts  *)
(* file of up to MaxContacts records.                                      *)

ContactRecords ==
    { [last_name |-> l, first_name |-> f, email |-> e] :
        l \in {<<"A">>, <<"A", "B">>, <<"B">>}, f \in {<<"A">>, <<"a">>}, e \in {"x", "y"} }

ContactArrays == UNION { [1..n -> ContactRecords] : n \in 0..MaxContacts }

InitSort ==
    /\ sort_in \in ContactArrays
    /\ fs = [p \in {DataFile} |-> Contacts(sort_in)]
    /\ registry = function_definitions_llm
    /\ nreq = 0
    /\ endpoint = "none"
    /\ llm = NoAnswer
    /\ outcome = NoOutcome
    /\ invoked = <<>>
    /\ events = <<>>
    /\ bound = EmptyObj
    /\ defaulted = {}
    /\ guard_in = <<>>
    /\ guard_out = "none"
    /\ first = NoFirst

\* the answer of the classifier to "Sort the contacts in ... into ..."
SortAnswer ==
    Answer("ok", <<ToolCall("sort_contacts",
                            json_dumps(<<"filename", "targetfile">>,
                                       [filename |-> Str(DataFile),
                                        targetfile |-> Str(DataFile2)]))>>)

\* POST /run with the contacts-sorting prompt
RunSort ==
    /\ endpoint = "none"
    /\ nreq = 0
    /\ LET r == run_task(fs, SortAnswer, "ok")
       IN  /\ llm' = SortAnswer
           /\ outcome' = r.out
           /\ fs' = r.st.fs
           /\ invoked' = r.st.invoked
           /\ events' = r.st.events
           /\ bound' = r.st.bound
           /\ defaulted' = r.st.defaulted
    /\ endpoint' = "run"
    /\ nreq' = nreq + 1
    /\ registry' = RegistryAfterRequest(registry)
    /\ UNCHANGED <<guard_in, guard_out, sort_in, first>>

NextSort == RunSort

SpecSort == InitSort /\ [][NextSort]_vars

-----------------------------------------------------------------------------
(* The claims.                                                             *)

\* the classifier gave run_task a task name and an arguments text
Classified == llm.status = "ok" /\ llm.tool_calls # <<>>

TaskCode == llm.tool_calls[1].name
Arguments == llm.tool_calls[1].arguments

\* C1: every request handled by run_task ends in a success acknowledgement
\* or in an HTTP 400 that carries a detail string, whatever the classifier
\* returned or raised and whatever the handler raised; no exception leaves
\* run_task uncaught.
C1_RunTaskEndsStructured ==
    endpoint = "run" =>
        \/ outcome.kind = "success"
        \/ outcome.kind = "http400" /\ outcome.detail # ""

\* C1, its case: a handler ran and raised, and the request ended in HTTP 400.
C1_Witness ==
    /\ endpoint = "run"
    /\ invoked = <<"process_credit_card">>
    /\ outcome.kind = "http400"
    /\ outcome.detail = "ConnectionError"

\* C2: a task name that is not in the registry ends in a failure outcome
\* that the caller can tell apart from a success.
C2_UnknownTaskIsFailure ==
    (endpoint = "run" /\ Classified /\ TaskCode \notin RegistryNames(registry))
        => outcome.kind = "http400"

\* C3: whatever the task name, arguments that are not valid JSON end in
\* the argument-parse failure, and no handler is invoked.
C3_MalformedArgumentsFail ==
    (endpoint = "run" /\ Classified /\ ~json_loads(Arguments).ok)
        => /\ outcome.kind = "http400"
           /\ outcome.detail = "JSONDecodeError"
           /\ invoked = <<>>

\* C4: for a registry task and a well-formed argument object that omits a
\* parameter of the task's required array, dispatch ends in a failure and
\* the handler is not run with a substituted value.
C4_MissingRequiredFails ==
    ( /\ endpoint = "run"
      /\ Classified
      /\ TaskCode \in RegistryNames(registry)
      /\ json_loads(Arguments).kind = "object"
      /\ \E k \in Range(SpecOf(registry, TaskCode).required) :
            k \notin DOMAIN json_loads(Arguments).obj )
        => /\ outcome.kind = "http400"
           /\ invoked = <<>>

\* the handlers that call the Path Guard, and the arguments they hand to it
GuardUsers == {"download_url_content", "execute_sql_query", "process_image",
               "convert_markdown_to_html"}

GuardedArgs(h) ==
    CASE h = "download_url_content" -> {"save_path"}
      [] h = "execute_sql_query" -> {"db_path"}
      [] h = "process_image" -> {"image_path", "output_path"}
      [] h = "convert_markdown_to_html" -> {"md_path", "output_path"}
      [] OTHER -> {}

\* C5: when a handler that calls the Path Guard runs with a guarded path
\* argument outside /data, the request ends in a failure outcome, never in
\* a success acknowledgement.
C5_OutsidePathIsDenied ==
    ( /\ endpoint = "run"
      /\ Len(invoked) = 1
      /\ invoked[1] \in GuardUsers
      /\ \E k \in GuardedArgs(invoked[1]) :
            bound[k].t = "str" /\ ~UnderDataRoot(Chars(bound[k].v)) )
        => outcome.kind = "http400"

\* C6: no handler that uses the Path Guard writes a file whose path lies
\* outside /data.
C6_NoWriteOutsideRoot ==
    \A i \in DOMAIN events :
        (events[i].op = "write" /\ invoked # <<>> /\ invoked[1] \in GuardUsers)
            => UnderDataRoot(Chars(events[i].path))

\* C7: validate_data_path returns true iff the normalized form of the path
\* is /data or lies under it.
C7_GuardIffUnderRoot ==
    guard_out # "none" => ((guard_out = "True") <=> UnderDataRoot(guard_in))

\* C8: whenever the classifier fails (the service is unreachable, times
\* out, answers malformed or with no tool call), the entry point that called
\* it, /run or /ask, reports a structured error and no handler is invoked.
C8_ClassifierFailureIsStructured ==
    (endpoint \in {"run", "ask"} /\ get_completions(llm).exc # "")
        => /\ outcome.kind = "http400"
           /\ invoked = <<>>

\* C9 as stated: at most one handler is invoked, and when the task name is
\* in the registry exactly one is, the one bound to that name.
C9_ExactlyOneWhenRegistered ==
    (endpoint = "run" /\ Classified)
        => /\ Len(invoked) <= 1
           /\ TaskCode \in RegistryNames(registry) => invoked = <<TaskCode>>

\* C9, amended: at most one handler is invoked; when the task name is in
\* the registry and the arguments parse as a JSON object that binds to the
\* handler's parameters, exactly one handler is invoked, the one bound to
\* that name; a handler that is invoked is always the one bound to the name.
C9_AtMostOneAndTheNamedOne ==
    (endpoint = "run" /\ Classified)
        => /\ Len(invoked) <= 1
           /\ ( /\ TaskCode \in RegistryNames(registry)
                /\ json_loads(Arguments).kind = "object"
                /\ (DOMAIN json_loads(Arguments).obj) \subseteq Range(Params(TaskCode))
                /\ \A q \in Range(Params(TaskCode)) :
                      q \in DOMAIN json_loads(Arguments).obj \/ q \in DOMAIN Defaults(TaskCode) )
                  => invoked = <<TaskCode>>
           /\ invoked # <<>> => invoked = <<TaskCode>>

\* C9, its case: a registry task with binding arguments ran its own
\* handler, which took a default for a parameter the answer left out.
C9_Witness ==
    /\ endpoint = "run"
    /\ Classified
    /\ TaskCode = "count_weekday_dates"
    /\ invoked = <<"count_weekday_dates">>
    /\ defaulted = {"weekday"}
    /\ outcome.kind = "success"

\* the number of times r occurs in the sequence s
Count(s, r) == Cardinality({i \in DOMAIN s : s[i] = r})

\* C10: for every array of contact records, sort_contacts writes to the
\* target file a permutation of the input that ascends by the pair
\* (last_name, first_name).
C10_SortedPermutation ==
    endpoint = "run" =>
        /\ outcome.kind = "success"
        /\ Exists(fs, DataFile2)
        /\ fs[DataFile2].kind = "contacts"
        /\ LET out == fs[DataFile2].recs
           IN  /\ Len(out) = Len(sort_in)
               /\ \A r \in Range(sort_in) \cup Range(out) : Count(out, r) = Count(sort_in, r)
               /\ \A i, j \in DOMAIN out :
                     i < j =>
                        \/ StrLess(out[i].last_name, out[j].last_name)
                        \/ /\ out[i].last_name = out[j].last_name
                           /\ ~StrLess(out[j].first_name, out[i].first_name)

\* C10, its case: an array of three records that the sort had to reorder
\* on the first name alone.
C10_Witness ==
    /\ endpoint = "run"
    /\ Len(sort_in) = 3
    /\ sort_in[1].last_name = sort_in[2].last_name
    /\ StrLess(sort_in[2].first_name, sort_in[1].first_name)
    /\ Exists(fs, DataFile2)
    /\ fs[DataFile2].recs # sort_in

-----------------------------------------------------------------------------
(* The count specification: the weekday-counting request, run again with   *)
(* the same answer, on every dates file of up to MaxDates lines.           *)

\* how many times the request is run
MaxRuns == 2

DateFiles ==
    UNION { [1..n -> {DateLine(1), DateLine(2), BadLine}] : n \in 0..MaxDates }

\* the answers of the classifier: the dates in DataFile, the count into
\* DataFile2 or into the dates file itself, weekday given or left out
CountAnswers ==
    { Answer("ok", <<ToolCall("count_weekday_dates",
                              json_dumps(<<"filename", "targetfile", "weekday">>, d))>>) :
        d \in { x \in Objects(function_definitions_llm[3]) :
                    /\ {"filename", "targetfile"} \subseteq DOMAIN x
                    /\ x.filename = Str(DataFile) } }

InitCount ==
    /\ \E lines \in DateFiles : fs = [p \in {DataFile} |-> Dates(lines)]
    /\ registry = function_definitions_llm
    /\ nreq = 0
    /\ endpoint = "none"
    /\ llm = NoAnswer
    /\ outcome = NoOutcome
    /\ invoked = <<>>
    /\ events = <<>>
    /\ bound = EmptyObj
    /\ defaulted = {}
    /\ guard_in = <<>>
    /\ guard_out = "none"
    /\ sort_in = <<>>
    /\ first = NoFirst

\* POST /run with the weekday-counting prompt, the first time or again
RunCount ==
    /\ endpoint = "none"
    /\ nreq < MaxRuns
    /\ \E ans \in CountAnswers, env \in Envs :
          LET r == run_task(fs, ans, env)
          IN  /\ nreq > 0 => ans = first.ans
              /\ llm' = ans
              /\ outcome' = r.out
              /\ fs' = r.st.fs
              /\ invoked' = r.st.invoked
              /\ events' = r.st.events
              /\ bound' = r.st.bound
              /\ defaulted' = r.st.defaulted
              /\ first' = IF nreq = 0 THEN [ans |-> ans, input |-> fs[DataFile].recs]
                          ELSE first
    /\ endpoint' = "run"
    /\ nreq' = nreq + 1
    /\ registry' = RegistryAfterRequest(registry)
    /\ UNCHANGED <<guard_in, guard_out, sort_in>>

NextCount == RunCount \/ Respond

SpecCount == InitCount /\ [][NextCount]_vars

\* the target file of the counting request being answered
CountTarget == json_loads(llm.tool_calls[1].arguments).obj.targetfile.v

C13_UnknownTaskIsNoOp ==
    [][ ( /\ endpoint' = "run"
          /\ endpoint = "none"
          /\ Classified'
          /\ TaskCode' \notin RegistryNames(registry) )
        => /\ invoked' = <<>>
           /\ events' = <<>>
           /\ fs' = fs
           /\ registry' = registry
           /\ outcome'.kind = "success"
           /\ outcome'.task = TaskCode' ]_vars

\* C13, its case: an unknown task name with arguments that are no JSON was
\* dispatched after an earlier request had written to the filesystem.
C13_Witness ==
    /\ endpoint = "run"
    /\ nreq = MaxRequests
    /\ Classified
    /\ TaskCode = UnknownName
    /\ ~json_loads(Arguments).ok
    /\ fs # InitialFs
    /\ invoked = <<>>
    /\ outcome.kind = "success"

\* C14: when the answer carries one or more tool calls, the task name and
\* the arguments dispatched are those of the first tool call, unmodified: the
\* name reported is the first call's, a handler that runs is the first
\* call's and receives the first call's parsed arguments, and a further tool
\* call invokes no handler and has no effect.
C14_FirstToolCallVerbatim ==
    (endpoint \in {"run", "ask"} /\ Classified)
        => /\ outcome.task = TaskCode
           /\ \A i \in DOMAIN invoked : invoked[i] = TaskCode
           /\ Len(invoked) <= 1
           /\ invoked # <<>> =>
                 /\ DOMAIN json_loads(Arguments).obj = (DOMAIN bound) \ defaulted
                 /\ \A q \in DOMAIN json_loads(Arguments).obj :
                        bound[q] = json_loads(Arguments).obj[q]
           /\ (Len(llm.tool_calls) > 1 /\ TaskCode # llm.tool_calls[2].name)
                 => \A i \in DOMAIN events :
                        ~(events[i].op \in {"fetch", "write"})

\* C14, its case: an answer with two tool calls was dispatched and the
\* handler of the first ran, on the first call's arguments.
C14_Witness ==
    /\ endpoint = "run"
    /\ Len(llm.tool_calls) = 2
    /\ TaskCode = "validate_data_path"
    /\ llm.tool_calls[2].name = "scrape_web_content"
    /\ invoked = <<"validate_data_path">>
    /\ bound.filepath = Str(TraversalFile)
    /\ outcome.kind = "success"

\* C15: for every task of the registry, an argument object that conforms to
\* the task's schema (every key of the required array, and only declared or
\* required keys) binds to the task's handler: the handler is entered, no
\* keyword-binding error is raised.
C15_ConformingArgumentsBind ==
    ( /\ endpoint = "run"
      /\ Classified
      /\ TaskCode \in RegistryNames(registry)
      /\ json_loads(Arguments).ok
      /\ json_loads(Arguments).kind = "object"
      /\ Range(SpecOf(registry, TaskCode).required) \subseteq DOMAIN json_loads(Arguments).obj
      /\ DOMAIN json_loads(Arguments).obj \subseteq
            Range(SpecOf(registry, TaskCode).properties)
                \cup Range(SpecOf(registry, TaskCode).required) )
        => /\ invoked = <<TaskCode>>
           /\ DOMAIN json_loads(Arguments).obj \subseteq Range(Params(TaskCode))

\* the names the if statements of run_task compare task_code with
BranchNames == { Branches[i].name : i \in DOMAIN Branches }

\* C16: the task names of the registry are the task names the dispatcher has
\* an if statement for; each name has exactly one if statement, which calls
\* the handler of that name; and a handler that runs is the one named by the
\* classified task, a task of the registry.
C16_RegistryMatchesBranches ==
    /\ RegistryNames(registry) = BranchNames
    /\ \A i, j \in DOMAIN Branches : Branches[i].name = Branches[j].name => i = j
    /\ \A i, j \in DOMAIN registry : registry[i].name = registry[j].name => i = j
    /\ \A i \in DOMAIN Branches : Branches[i].handler = Branches[i].name
    /\ (endpoint = "run" /\ invoked # <<>>)
          => /\ invoked = <<TaskCode>>
             /\ TaskCode \in RegistryNames(registry)

\* C16, its case: the last task of the registry was classified and the last
\* if statement called its handler.
C16_Witness ==
    /\ endpoint = "run"
    /\ Classified
    /\ TaskCode = registry[Len(registry)].name
    /\ TaskCode = Branches[Len(Branches)].name
    /\ invoked = <<"convert_markdown_to_html">>
    /\ outcome.kind = "success"

\* the events of a Path Guard check, and the events of a side effect
GuardOps == {"guard_ok", "guard_reject"}
SideEffectOps == {"fetch", "db", "read", "write"}

\* C17: in a handler that calls the Path Guard every guard check comes
\* before any side effect of the handler, and when a check rejects a path
\* the handler has made no network fetch, no database or file read and no
\* file write, before the check or after it.
C17_GuardBeforeSideEffects ==
    (endpoint = "run" /\ invoked # <<>> /\ invoked[1] \in GuardUsers)
        => /\ \A i, j \in DOMAIN events :
                 (events[i].op \in GuardOps /\ j < i) => events[j].op \in GuardOps
           /\ (\E i \in DOMAIN events : events[i].op = "guard_reject")
                 => \A j \in DOMAIN events : ~(events[j].op \in SideEffectOps)

\* C17, its case: process_image accepted the image path, rejected the output
\* path and returned without opening the image.
C17_Witness ==
    /\ endpoint = "run"
    /\ invoked = <<"process_image">>
    /\ Len(events) = 2
    /\ events[1] = Ev("guard_ok", DataFile)
    /\ events[2].op = "guard_reject"
    /\ outcome.kind = "success"

====
